---- MODULE Spec2Model ----
(***************************************************************************)
(* container_service_extension/utils.py: the cache-backed get_vsphere       *)
(* resolver, the upload_ova_to_catalog workflow with its task wait, and     *)
(* process_response.                                                        *)
(***************************************************************************)
EXTENDS Integers, Sequences, FiniteSets, TLC

VARIABLES config, cache, th, accessLog, evict,
          items, catalogExists, up, prevUp,
          response, outcome

varsR == <<config, cache, th, accessLog, evict>>
varsU == <<items, catalogExists, up, prevUp>>
varsP == <<response, outcome>>
vars == <<config, cache, th, accessLog, evict, items, catalogExists, up, prevUp,
          response, outcome>>

None == "None"

(***************************************************************************)
(* Bounds.  maxsize stands for LRUCache(maxsize=1024), scaled down so that  *)
(* a full cache and its evictions are reached.                              *)
(***************************************************************************)
maxsize == 2

AllThreads == {1, 2}

\* VM ids: always more cacheable VMs than the cache holds.
VmIds == 1..(maxsize + 2)

(***************************************************************************)
(* The platform the resolver talks to: each VM's vCenter, each vCenter's    *)
(* URL text (host and the digits of the port).                              *)
(***************************************************************************)
VcOf(vm) ==
  CASE vm = 1 -> "vc1"
    [] vm = 2 -> "vc2"
    [] vm = 3 -> "vc3"
    [] vm = 4 -> "vc4"
    [] OTHER -> "vc1"

VcUrl(vc) ==
  CASE vc = "vc1" -> [host |-> "vc1.local", port |-> <<4, 4, 3>>]
    [] vc = "vc2" -> [host |-> "vc2.local", port |-> <<>>]
    [] vc = "vc3" -> [host |-> "vc3.local", port |-> <<8, 4, 4, 3>>]
    [] OTHER -> [host |-> "vc4.local", port |-> <<9, 9, 9, 9, 9>>]

\* config['vcs'] tables: the table of two entries, one with a duplicate name,
\* and the empty one.
Vc(n, u, p) == [name |-> n, username |-> u, password |-> p]

Configs ==
  { << Vc("vc1", "u1", "p1"), Vc("vc2", "u2", "p2") >>,
    << Vc("vc1", "u1", "p1"), Vc("vc2", "u2", "p2"), Vc("vc2", "u2b", "p2b"),
       Vc("vc3", "u3", "p3") >>,
    << >> }

(***************************************************************************)
(* urlparse(...).hostname and .port: the port is None (<<>>) when the URL   *)
(* has none, int(digits) otherwise (<<n>>), and a ValueError when it is out *)
(* of range.                                                                *)
(***************************************************************************)
RECURSIVE ToInt(_)
ToInt(ds) == IF ds = <<>> THEN 0
             ELSE 10 * ToInt(SubSeq(ds, 1, Len(ds) - 1)) + ds[Len(ds)]

PortValid(url) == url.port = <<>> \/ ToInt(url.port) <= 65535

PortOf(url) == IF url.port = <<>> THEN <<>> ELSE <<ToInt(url.port)>>

(***************************************************************************)
(* cachetools.LRUCache: a sequence of [key, item], least recently used      *)
(* first.                                                                   *)
(***************************************************************************)
Keys(c) == {c[i].key : i \in 1..Len(c)}

\* key in cache: does not touch the order
InCache(c, k) == k \in Keys(c)

ItemOf(c, k) == (CHOOSE i \in 1..Len(c) : c[i].key = k)

Lookup(c, k) == c[ItemOf(c, k)].item

Without(c, k) == SelectSeq(c, LAMBDA e : e.key # k)

\* LRUCache.__getitem__ on a present key: the key moves to the most recent end
Refresh_none(c, k) == c

Refresh(c, k) == Append(Without(c, k), c[ItemOf(c, k)])

\* LRUCache.popitem: drops the least recently used key
PopItem(c) == Tail(c)

\* LRUCache.__setitem__: evicts while full (new keys only), stores, and makes
\* the key the most recent
SetItem_drop(c, k, v) == c

SetItem_dup(c, k, v) == Append(c, [key |-> k, item |-> v])

SetItem(c, k, v) ==
  IF InCache(c, k)
    THEN Append(Without(c, k), [key |-> k, item |-> v])
    ELSE Append(IF Len(c) + 1 > maxsize THEN PopItem(c) ELSE c,
                [key |-> k, item |-> v])

\* the order of last accesses, kept beside the cache to state the LRU claim
Touch(log, k) == Append(SelectSeq(log, LAMBDA x : x # k), k)

OldestIn(log, c) ==
  log[CHOOSE i \in 1..Len(log) :
        /\ log[i] \in Keys(c)
        /\ \A j \in 1..(i - 1) : log[j] \notin Keys(c)]

(***************************************************************************)
(* get_vsphere, lines 592-596: the first entry of config['vcs'] named as    *)
(* the vCenter gives username and password; no entry leaves them out.       *)
(***************************************************************************)
RECURSIVE MatchVcs(_, _, _)
MatchVcs(vcs, vcenter_name, cache_item) ==
  IF vcs = <<>> THEN cache_item
  ELSE IF Head(vcs).name = vcenter_name
         THEN [hostname |-> cache_item.hostname, port |-> cache_item.port,
               username |-> Head(vcs).username, password |-> Head(vcs).password]
         ELSE MatchVcs(Tail(vcs), vcenter_name, cache_item)

NoItem == [hostname |-> None, port |-> <<>>]

NoResult == [hostname |-> None, username |-> None, password |-> None, port |-> <<>>]

NoPrev == [vm_id |-> 0, miss |-> FALSE, inserted |-> FALSE, nlogin |-> 0,
           nchain |-> 0, nnet |-> 0]

IdleThread ==
  [pc |-> "idle", vm_id |-> 0, logger |-> FALSE, vcenter_name |-> None,
   cache_item |-> NoItem, result |-> NoResult, exc |-> None, at |-> None,
   miss |-> FALSE, inserted |-> FALSE, nlogin |-> 0, nchain |-> 0, nnet |-> 0,
   cache0 |-> <<>>, prev |-> NoPrev]

Summary(r) == [vm_id |-> r.vm_id, miss |-> r.miss, inserted |-> r.inserted,
               nlogin |-> r.nlogin, nchain |-> r.nchain, nnet |-> r.nnet]

Done(t) == th[t].pc \in {"returned", "raised"}

\* an exception e leaves get_vsphere from the step named by the current pc
Raise(t, e) == [th[t] EXCEPT !.at = th[t].pc, !.pc = "raised", !.exc = e]

\* lines 567-569: the VM id from the caller's vapp, then the cache check
Call(t) ==
  /\ th[t].pc \in {"idle", "returned", "raised"}
  /\ \E vm \in VmIds, lg \in BOOLEAN, found \in BOOLEAN :
       LET fresh == [IdleThread EXCEPT
                       !.logger = lg, !.cache0 = cache,
                       !.prev = IF th[t].pc = "idle" THEN NoPrev
                                ELSE Summary(th[t])]
       IN th' = [th EXCEPT ![t] =
                   IF ~found
                     THEN [fresh EXCEPT !.pc = "raised", !.at = "vapp_get_vm",
                                        !.exc = "EntityNotFoundException"]
                     ELSE [fresh EXCEPT !.vm_id = vm,
                                        !.miss = ~InCache(cache, vm),
                                        !.pc = IF InCache(cache, vm) THEN "log"
                                               ELSE "login"]]
  /\ UNCHANGED <<config, cache, accessLog, evict>>
  /\ UNCHANGED varsU
  /\ UNCHANGED varsP

\* lines 570-578: a new Client and the login as the system org
Login(t) ==
  /\ th[t].pc = "login"
  /\ \E ok \in BOOLEAN :
       LET r == [th[t] EXCEPT !.nlogin = @ + 1, !.nnet = @ + 1]
       IN th' = [th EXCEPT ![t] =
                   IF ok THEN [r EXCEPT !.pc = "get_vm"]
                   ELSE [r EXCEPT !.at = "login", !.pc = "raised",
                                  !.exc = "UnauthorizedException"]]
  /\ UNCHANGED <<config, cache, accessLog, evict>>
  /\ UNCHANGED varsU
  /\ UNCHANGED varsP

\* lines 581-583: the vapp and the VM fetched again under the new session
GetVm(t) ==
  /\ th[t].pc = "get_vm"
  /\ \E ok \in BOOLEAN :
       LET r == [th[t] EXCEPT !.nnet = @ + 1]
       IN th' = [th EXCEPT ![t] =
                   IF ok THEN [r EXCEPT !.pc = "get_vc"]
                   ELSE [r EXCEPT !.at = "get_vm", !.pc = "raised",
                                  !.exc = "EntityNotFoundException"]]
  /\ UNCHANGED <<config, cache, accessLog, evict>>
  /\ UNCHANGED varsU
  /\ UNCHANGED varsP

\* line 584: vm_sys.get_vc()
GetVc(t) ==
  /\ th[t].pc = "get_vc"
  /\ \E ok \in BOOLEAN :
       LET r == [th[t] EXCEPT !.nnet = @ + 1]
       IN th' = [th EXCEPT ![t] =
                   IF ok THEN [r EXCEPT !.pc = "get_vcenter",
                                        !.vcenter_name = VcOf(th[t].vm_id)]
                   ELSE [r EXCEPT !.at = "get_vc", !.pc = "raised",
                                  !.exc = "EntityNotFoundException"]]
  /\ UNCHANGED <<config, cache, accessLog, evict>>
  /\ UNCHANGED varsU
  /\ UNCHANGED varsP

GetVcenter_early(t) ==
  /\ th[t].pc = "get_vcenter"
  /\ \E ok \in BOOLEAN :
       LET r == [th[t] EXCEPT !.nnet = @ + 1]
       IN /\ th' = [th EXCEPT ![t] =
                      IF ok THEN [r EXCEPT !.pc = "urlparse"]
                      ELSE [r EXCEPT !.at = "get_vcenter", !.pc = "raised",
                                     !.exc = "EntityNotFoundException"]]
          /\ cache' = SetItem(cache, th[t].vm_id, th[t].cache_item)
  /\ UNCHANGED <<config, accessLog, evict>>
  /\ UNCHANGED varsU
  /\ UNCHANGED varsP

\* lines 585-586: platform.get_vcenter(vcenter_name)
GetVcenter(t) ==
  /\ th[t].pc = "get_vcenter"
  /\ \E ok \in BOOLEAN :
       LET r == [th[t] EXCEPT !.nnet = @ + 1]
       IN th' = [th EXCEPT ![t] =
                   IF ok THEN [r EXCEPT !.pc = "urlparse"]
                   ELSE [r EXCEPT !.at = "get_vcenter", !.pc = "raised",
                                  !.exc = "EntityNotFoundException"]]
  /\ UNCHANGED <<config, cache, accessLog, evict>>
  /\ UNCHANGED varsU
  /\ UNCHANGED varsP

\* lines 587-591: urlparse(vcenter.Url.text), hostname and port
ParseUrl(t) ==
  /\ th[t].pc = "urlparse"
  /\ LET url == VcUrl(th[t].vcenter_name)
     IN th' = [th EXCEPT ![t] =
                 IF PortValid(url)
                   THEN [th[t] EXCEPT !.pc = "match",
                           !.cache_item = [hostname |-> url.host,
                                           port |-> PortOf(url)]]
                   ELSE [th[t] EXCEPT !.at = "urlparse", !.pc = "raised",
                                      !.exc = "ValueError"]]
  /\ UNCHANGED <<config, cache, accessLog, evict>>
  /\ UNCHANGED varsU
  /\ UNCHANGED varsP

\* lines 592-596: the loop over config['vcs']
MatchConfig(t) ==
  /\ th[t].pc = "match"
  /\ th' = [th EXCEPT ![t] =
              [th[t] EXCEPT !.pc = "insert", !.nchain = @ + 1,
                 !.cache_item = MatchVcs(config, th[t].vcenter_name,
                                         th[t].cache_item)]]
  /\ UNCHANGED <<config, cache, accessLog, evict>>
  /\ UNCHANGED varsU
  /\ UNCHANGED varsP

\* line 597: cache[vm_id] = cache_item
Insert(t) ==
  /\ th[t].pc = "insert"
  /\ cache' = SetItem(cache, th[t].vm_id, th[t].cache_item)
  /\ accessLog' = Touch(accessLog, th[t].vm_id)
  /\ evict' = IF Len(cache) >= maxsize /\ ~InCache(cache, th[t].vm_id)
                THEN [full |-> TRUE, keys |-> Keys(cache) \ Keys(cache'),
                      lru |-> OldestIn(accessLog, cache),
                      added |-> Keys(cache') \ Keys(cache)]
                ELSE [full |-> FALSE, keys |-> {}, lru |-> 0,
                      added |-> Keys(cache') \ Keys(cache)]
  /\ th' = [th EXCEPT ![t] = [th[t] EXCEPT !.pc = "log", !.inserted = TRUE]]
  /\ UNCHANGED config
  /\ UNCHANGED varsU
  /\ UNCHANGED varsP

\* one cache[vm_id][field] of lines 600-603: KeyError(vm_id) when the key is
\* absent, KeyError(field) when the field is, the key's recency refreshed when the key is present
ReadPcs == <<"log", "hostname", "username", "password", "port", "return">>

NextPc(p) == ReadPcs[(CHOOSE i \in 1..Len(ReadPcs) : ReadPcs[i] = p) + 1]

FieldAt(p) == IF p = "log" THEN "hostname" ELSE p

\* lines 599-600: the debug line reads cache[vm_id]['hostname'] when a logger
\* is given
Log(t) ==
  /\ th[t].pc = "log"
  /\ IF ~th[t].logger
       THEN /\ th' = [th EXCEPT ![t] = [th[t] EXCEPT !.pc = "hostname"]]
            /\ UNCHANGED <<cache, accessLog>>
       ELSE IF ~InCache(cache, th[t].vm_id)
         THEN /\ th' = [th EXCEPT ![t] = Raise(t, "KeyError(vm_id)")]
              /\ UNCHANGED <<cache, accessLog>>
         ELSE /\ cache' = Refresh(cache, th[t].vm_id)
              /\ accessLog' = Touch(accessLog, th[t].vm_id)
              /\ th' = [th EXCEPT ![t] = [th[t] EXCEPT !.pc = "hostname"]]
  /\ UNCHANGED <<config, evict>>
  /\ UNCHANGED varsU
  /\ UNCHANGED varsP

\* lines 602-603: the four arguments of VSphere(...), read left to right
ReadField(t) ==
  /\ th[t].pc \in {"hostname", "username", "password", "port"}
  /\ LET f == FieldAt(th[t].pc)
     IN IF ~InCache(cache, th[t].vm_id)
          THEN /\ th' = [th EXCEPT ![t] = Raise(t, "KeyError(vm_id)")]
               /\ UNCHANGED <<cache, accessLog>>
          ELSE /\ cache' = Refresh(cache, th[t].vm_id)
               /\ accessLog' = Touch(accessLog, th[t].vm_id)
               /\ th' = [th EXCEPT ![t] =
                           IF f \in DOMAIN Lookup(cache, th[t].vm_id)
                             THEN [th[t] EXCEPT
                                     !.pc = NextPc(th[t].pc),
                                     !.result = [@ EXCEPT ![f] =
                                        Lookup(cache, th[t].vm_id)[f]]]
                             ELSE Raise(t, "KeyError(field)")]
  /\ UNCHANGED <<config, evict>>
  /\ UNCHANGED varsU
  /\ UNCHANGED varsP

\* line 602: VSphere(hostname, username, password, port) is returned
Return(t) ==
  /\ th[t].pc = "return"
  /\ th' = [th EXCEPT ![t] = [th[t] EXCEPT !.pc = "returned"]]
  /\ UNCHANGED <<config, cache, accessLog, evict>>
  /\ UNCHANGED varsU
  /\ UNCHANGED varsP

NoEvict == [full |-> FALSE, keys |-> {}, lru |-> 0, added |-> {}]


(***************************************************************************)
(* upload_ova_to_catalog and wait_for_catalog_item_to_resolve.  The org's   *)
(* catalog is the set of its item names; trace lists the calls the workflow *)
(* made to its collaborators, each with its outcome.                        *)
(***************************************************************************)
OK == "ok"

NotFound == "EntityNotFoundException"

\* file paths, as their components
Paths == { <<"image.ova">>, <<"tmp", "image.ova">>, <<"tmp", "other.ova">> }

\* line 356: pathlib.Path(filepath).name
PathName(filepath) == filepath[Len(filepath)]

ItemNames == {PathName(p) : p \in Paths}

\* the org and org_name arguments: an Org object, a name that resolves, no
\* name (the logged-in org), a name of no org
OrgArgs == {"org", "org_name", "logged_in", "unknown_org_name"}

\* lines 354-355 and 423-441: get_org is called when no org is given
GetOrg(orgArg) ==
  IF orgArg = "org" THEN <<>>
  ELSE IF orgArg = "unknown_org_name"
         THEN << [op |-> "get_org", out |-> NotFound] >>
         ELSE << [op |-> "get_org", out |-> OK] >>

IdleUpload ==
  [pc |-> "idle", update |-> FALSE, filepath |-> <<>>, name |-> None,
   trace |-> <<>>, exc |-> None, at |-> None, items0 |-> {}]

NoPrevUp == [pc |-> "idle", update |-> FALSE, name |-> None, uploads |-> 0]

Count(trace, op) == Cardinality({i \in 1..Len(trace) : trace[i].op = op})

UpSummary(u) == [pc |-> u.pc, update |-> u.update, name |-> u.name,
                 uploads |-> Count(u.trace, "upload_ovf")]

Emit(u, op, out) == [u EXCEPT !.trace = Append(@, [op |-> op, out |-> out])]

\* the call op ends with exception e, which leaves upload_ova_to_catalog
UpRaise(u, op, e) == [Emit(u, op, e) EXCEPT !.pc = "raised", !.exc = e, !.at = op]

\* org.get_catalog_item / org.delete_catalog_item find the item
Found(name) == catalogExists /\ name \in items

\* lines 416-420: the item is looked up, then the first task of its resource
\* is waited for
WaitForCatalogItemToResolve(name, taskOk) ==
  IF ~Found(name) THEN NotFound
  ELSE IF taskOk THEN OK ELSE "VcdTaskException"

\* lines 354-357: the org, the item name, the branch on update
UploadCall ==
  /\ up.pc \in {"idle", "returned", "raised"}
  /\ \E update \in BOOLEAN, filepath \in Paths, orgArg \in OrgArgs :
       LET u == [IdleUpload EXCEPT !.update = update, !.filepath = filepath,
                                   !.items0 = items, !.trace = GetOrg(orgArg)]
       IN up' = IF orgArg = "unknown_org_name"
                  THEN [u EXCEPT !.pc = "raised", !.exc = NotFound,
                                 !.at = "get_org"]
                  ELSE [u EXCEPT !.name = PathName(filepath),
                                 !.pc = IF update THEN "delete" ELSE "check"]
  /\ prevUp' = IF up.pc = "idle" THEN NoPrevUp ELSE UpSummary(up)
  /\ UNCHANGED <<items, catalogExists>>
  /\ UNCHANGED varsR
  /\ UNCHANGED varsP

\* line 364, and line 373 for its EntityNotFoundException: the item is removed
\* at once, or stays listed until its task has resolved
DeleteCatalogItem ==
  /\ up.pc = "delete"
  /\ \E atOnce \in BOOLEAN :
       IF Found(up.name)
         THEN /\ up' = [Emit(up, "delete_catalog_item", OK) EXCEPT
                          !.pc = "reload_after_delete"]
              /\ items' = IF atOnce THEN items \ {up.name} ELSE items
         ELSE /\ up' = [Emit(up, "delete_catalog_item", NotFound) EXCEPT
                          !.pc = "upload"]
              /\ UNCHANGED items
  /\ UNCHANGED <<catalogExists, prevUp>>
  /\ UNCHANGED varsR
  /\ UNCHANGED varsP

\* lines 365 and 393: org.reload()
Reload ==
  /\ up.pc \in {"reload_after_delete", "reload_after_upload"}
  /\ up' = [Emit(up, "reload", OK) EXCEPT
              !.pc = IF up.pc = "reload_after_delete" THEN "drain_wait"
                     ELSE "confirm_wait"]
  /\ UNCHANGED <<items, catalogExists, prevUp>>
  /\ UNCHANGED varsR
  /\ UNCHANGED varsP

DrainWait_propagate ==
  /\ up.pc = "drain_wait"
  /\ \E taskOk \in BOOLEAN :
       LET out == WaitForCatalogItemToResolve(up.name, taskOk)
       IN /\ up' = IF out = OK
                     THEN [Emit(up, "drain_wait", out) EXCEPT !.pc = "upload"]
                     ELSE UpRaise(up, "drain_wait", out)
          /\ items' = IF out = OK THEN items \ {up.name} ELSE items
  /\ UNCHANGED <<catalogExists, prevUp>>
  /\ UNCHANGED varsR
  /\ UNCHANGED varsP

DrainWait_skipped ==
  /\ up.pc = "drain_wait"
  /\ up' = [up EXCEPT !.pc = "upload"]
  /\ items' = items \ {up.name}
  /\ UNCHANGED <<catalogExists, prevUp>>
  /\ UNCHANGED varsR
  /\ UNCHANGED varsP

\* lines 366-367, and line 373 for the EntityNotFoundException of the wait:
\* the wait on the deleted item
DrainWait ==
  /\ up.pc = "drain_wait"
  /\ \E taskOk \in BOOLEAN :
       LET out == WaitForCatalogItemToResolve(up.name, taskOk)
       IN /\ up' = IF out \in {OK, NotFound}
                     THEN [Emit(up, "drain_wait", out) EXCEPT !.pc = "upload"]
                     ELSE UpRaise(up, "drain_wait", out)
          /\ items' = IF out = OK THEN items \ {up.name} ELSE items
  /\ UNCHANGED <<catalogExists, prevUp>>
  /\ UNCHANGED varsR
  /\ UNCHANGED varsP

GetCatalogItem_ignored ==
  /\ up.pc = "check"
  /\ up' = [Emit(up, "get_catalog_item",
                 IF Found(up.name) THEN OK ELSE NotFound) EXCEPT !.pc = "upload"]
  /\ UNCHANGED <<items, catalogExists, prevUp>>
  /\ UNCHANGED varsR
  /\ UNCHANGED varsP

\* lines 376-386: the existence check without update
GetCatalogItem ==
  /\ up.pc = "check"
  /\ up' = IF Found(up.name)
             THEN [Emit(up, "get_catalog_item", OK) EXCEPT !.pc = "returned"]
             ELSE [Emit(up, "get_catalog_item", NotFound) EXCEPT !.pc = "upload"]
  /\ UNCHANGED <<items, catalogExists, prevUp>>
  /\ UNCHANGED varsR
  /\ UNCHANGED varsP

\* line 392: org.upload_ovf(catalog_name, filepath); the catalog must exist and
\* the platform may reject the upload
UploadOvf ==
  /\ up.pc = "upload"
  /\ \E accepted \in BOOLEAN :
       IF ~catalogExists
         THEN /\ up' = UpRaise(up, "upload_ovf", NotFound)
              /\ UNCHANGED items
         ELSE IF ~accepted
           THEN /\ up' = UpRaise(up, "upload_ovf", "UploadException")
                /\ UNCHANGED items
           ELSE /\ up' = [Emit(up, "upload_ovf", OK) EXCEPT
                            !.pc = "reload_after_upload"]
                /\ items' = items \cup {PathName(up.filepath)}
  /\ UNCHANGED <<catalogExists, prevUp>>
  /\ UNCHANGED varsR
  /\ UNCHANGED varsP

ConfirmWait_retry ==
  /\ up.pc = "confirm_wait"
  /\ \E taskOk \in BOOLEAN :
       LET out == WaitForCatalogItemToResolve(up.name, taskOk)
       IN up' = IF out = OK
                  THEN [Emit(up, "confirm_wait", out) EXCEPT !.pc = "returned"]
                  ELSE [Emit(up, "confirm_wait", out) EXCEPT !.pc = "upload"]
  /\ UNCHANGED <<items, catalogExists, prevUp>>
  /\ UNCHANGED varsR
  /\ UNCHANGED varsP

\* lines 394-399: the wait on the uploaded item, then the return
ConfirmWait ==
  /\ up.pc = "confirm_wait"
  /\ \E taskOk \in BOOLEAN :
       LET out == WaitForCatalogItemToResolve(up.name, taskOk)
       IN up' = IF out = OK
                  THEN [Emit(up, "confirm_wait", out) EXCEPT !.pc = "returned"]
                  ELSE UpRaise(up, "confirm_wait", out)
  /\ UNCHANGED <<items, catalogExists, prevUp>>
  /\ UNCHANGED varsR
  /\ UNCHANGED varsP


(***************************************************************************)
(* process_response, deserialize_response_content, response_to_exception.   *)
(* A response is its status code and the kind of its content: empty, the    *)
(* JSON {"message": {"reason": ..}}, the JSON {"message": ..}, another JSON *)
(* mapping, an XML error document, or text that is neither.                 *)
(***************************************************************************)
StatusCodes == {200, 201, 202, 204, 206, 299, 301, 400, 404, 500, 504}

Contents == {"empty", "json_reason", "json_message", "json_other", "xml", "text"}

JsonContents == {"json_reason", "json_message", "json_other"}

NoOutcome == [kind |-> None, value |-> None, exc |-> None, code |-> 0,
              message |-> None]

Returns(v) == [NoOutcome EXCEPT !.kind = "return", !.value = v]

Raises(e, code, msg) ==
  [NoOutcome EXCEPT !.kind = "raise", !.exc = e, !.code = code, !.message = msg]

\* lines 117-121: json.loads of the decoded content, dict() when it is empty
deserialize_response_content(r) ==
  IF r.content = "empty" THEN Returns("dict()")
  ELSE IF r.content \in JsonContents THEN Returns(r.content)
  ELSE Raises("JSONDecodeError", 0, None)

\* lines 131-147
response_to_exception(r) ==
  IF r.status_code = 504
    THEN IF r.content = "empty"
           THEN Raises("VcdResponseError", r.status_code, "An error has occurred.")
           ELSE IF r.content = "xml"
             THEN Raises("VcdResponseError", r.status_code, "xml_message")
             ELSE Raises("XMLSyntaxError", 0, None)
    ELSE LET content == deserialize_response_content(r) IN
         IF content.kind = "raise" THEN content
         ELSE IF content.value \in {"json_reason", "json_message"}
           THEN Raises("VcdResponseError", r.status_code,
                       IF content.value = "json_reason" THEN "reason"
                       ELSE "message")
           ELSE Raises("VcdResponseError", r.status_code, "unknown error")

\* lines 95-101: requests.codes.ok, created and accepted
process_response(r) ==
  IF r.status_code \in {200, 201, 202}
    THEN deserialize_response_content(r)
    ELSE response_to_exception(r)

Responses == [status_code : StatusCodes, content : Contents]

\* a response arrives
Receive ==
  /\ outcome.kind # None
  /\ response' \in Responses
  /\ outcome' = NoOutcome
  /\ UNCHANGED varsR
  /\ UNCHANGED varsU

\* process_response(response) returns or raises
ProcessResponse ==
  /\ outcome.kind = None
  /\ outcome' = process_response(response)
  /\ UNCHANGED response
  /\ UNCHANGED varsR
  /\ UNCHANGED varsU

InitResponse ==
  /\ response \in Responses
  /\ outcome = NoOutcome
  /\ config = <<>>
  /\ cache = <<>>
  /\ th = [t \in AllThreads |-> IdleThread]
  /\ accessLog = <<>>
  /\ evict = NoEvict
  /\ items = {}
  /\ catalogExists = TRUE
  /\ up = IdleUpload
  /\ prevUp = NoPrevUp

NextResponse ==
  \/ Receive
  \/ ProcessResponse

SpecResponse == InitResponse /\ [][NextResponse]_vars

InitOthersOfUpload ==
  /\ config = <<>>
  /\ cache = <<>>
  /\ th = [t \in AllThreads |-> IdleThread]
  /\ accessLog = <<>>
  /\ evict = NoEvict
  /\ response = [status_code |-> 200, content |-> "empty"]
  /\ outcome = NoOutcome

\* an org with or without the catalog, the catalog holding any of the items
InitUpload ==
  /\ catalogExists \in BOOLEAN
  /\ items \in SUBSET ItemNames
  /\ ~catalogExists => items = {}
  /\ up = IdleUpload
  /\ prevUp = NoPrevUp
  /\ InitOthersOfUpload

NextUpload ==
  \/ UploadCall
  \/ DeleteCatalogItem
  \/ Reload
  \/ DrainWait
  \/ GetCatalogItem
  \/ UploadOvf
  \/ ConfirmWait

SpecUpload == InitUpload /\ [][NextUpload]_vars

InitOthersOfResolver ==
  /\ items = {}
  /\ catalogExists = TRUE
  /\ up = IdleUpload
  /\ prevUp = NoPrevUp
  /\ response = [status_code |-> 200, content |-> "empty"]
  /\ outcome = NoOutcome

\* line 29: cache = LRUCache(maxsize=1024), empty when the module is loaded
Init ==
  /\ config \in Configs
  /\ cache = <<>>
  /\ th = [t \in AllThreads |-> IdleThread]
  /\ accessLog = <<>>
  /\ evict = NoEvict
  /\ InitOthersOfResolver

\* get_vsphere called by one caller at a time
Next ==
  \/ Call(1)
  \/ Login(1)
  \/ GetVm(1)
  \/ GetVc(1)
  \/ GetVcenter(1)
  \/ ParseUrl(1)
  \/ MatchConfig(1)
  \/ Insert(1)
  \/ Log(1)
  \/ ReadField(1)
  \/ Return(1)

Spec == Init /\ [][Next]_vars

(***************************************************************************)
(* get_vsphere called from several threads of the hosting process: the      *)
(* steps of the calls interleave on the one global cache, which no lock     *)
(* protects.  The record of the caller's previous call is not kept here.    *)
(***************************************************************************)
\* the VMs a thread asks for: thread 1 keeps asking for VM 1, the other
\* threads ask for any VM
VmsOf(t) == IF t = 1 THEN {1} ELSE VmIds

\* lines 567-569, as Call, by callers that pass no logger
ConcurrentCall(t) ==
  /\ th[t].pc \in {"idle", "returned", "raised"}
  /\ \E vm \in VmsOf(t), found \in BOOLEAN :
       th' = [th EXCEPT ![t] =
                IF ~found
                  THEN [IdleThread EXCEPT !.pc = "raised", !.at = "vapp_get_vm",
                                          !.exc = "EntityNotFoundException"]
                  ELSE [IdleThread EXCEPT !.vm_id = vm,
                                          !.miss = ~InCache(cache, vm),
                                          !.pc = IF InCache(cache, vm) THEN "log"
                                                 ELSE "login"]]
  /\ UNCHANGED <<config, cache, accessLog, evict>>
  /\ UNCHANGED varsU
  /\ UNCHANGED varsP

\* the cache of line 29, and a config['vcs'] that names every vCenter
InitConcurrent ==
  /\ config \in {c \in Configs : \A vm \in 1..3 : \E i \in 1..Len(c) : c[i].name = VcOf(vm)}
  /\ cache = <<>>
  /\ th = [t \in AllThreads |-> IdleThread]
  /\ accessLog = <<>>
  /\ evict = NoEvict
  /\ InitOthersOfResolver

NextConcurrent ==
  \E t \in AllThreads :
    \/ ConcurrentCall(t)
    \/ Login(t)
    \/ GetVm(t)
    \/ GetVc(t)
    \/ GetVcenter(t)
    \/ ParseUrl(t)
    \/ MatchConfig(t)
    \/ Insert(t)
    \/ Log(t)
    \/ ReadField(t)
    \/ Return(t)

SpecConcurrent == InitConcurrent /\ [][NextConcurrent]_vars

(***************************************************************************)
(* Claims about get_vsphere, checked under Spec.                            *)
(***************************************************************************)
ChainSteps == {"login", "get_vm", "get_vc", "get_vcenter", "urlparse"}

\* the call of thread t follows a call for the same VM id that found it
\* absent from the cache
SecondOfTwo(t) ==
  /\ Done(t)
  /\ th[t].vm_id # 0
  /\ th[t].prev.vm_id = th[t].vm_id
  /\ th[t].prev.miss

OneLoginThenHit(t) ==
  /\ ~th[t].miss
  /\ th[t].nnet = 0
  /\ th[t].prev.nlogin + th[t].nlogin = 1
  /\ th[t].prev.nchain + th[t].nchain = 1

\* C1 as stated: two sequential get_vsphere calls for a VM id that is not in
\* the cache perform one login and one full resolution chain in total, and the
\* second call is a cache hit without any network call.
C1_TwoCallsOneLogin ==
  \A t \in AllThreads : SecondOfTwo(t) => OneLoginThenHit(t)

\* C1 amended: the same, when the first call's resolution chain ran to the end
\* (the entry was inserted); a first call that fails on the way caches nothing
\* and the second call logs in again.
C1_TwoCallsOneLoginAfterInsert ==
  \A t \in AllThreads :
    (SecondOfTwo(t) /\ th[t].prev.inserted) => OneLoginThenHit(t)

C1_Witness ==
  \E t \in AllThreads :
    /\ SecondOfTwo(t)
    /\ th[t].prev.inserted
    /\ th[t].pc = "returned"
    /\ th[t].prev.nlogin = 1

\* the first entry of a table with the given name, by position
HasEntry(vcs, n) == \E i \in 1..Len(vcs) : vcs[i].name = n

FirstEntry(vcs, n) ==
  vcs[CHOOSE i \in 1..Len(vcs) :
        /\ vcs[i].name = n
        /\ \A j \in 1..(i - 1) : vcs[j].name # n]

\* C2: a get_vsphere call that misses and resolves returns an endpoint with the
\* username and password of the first config['vcs'] entry named as the VM's
\* vCenter, and returns with both unset (None), raising nothing, when no entry
\* has that name.
C2_ConfigMatching ==
  \A t \in AllThreads :
    (Done(t) /\ th[t].inserted) =>
      /\ th[t].pc = "returned"
      /\ IF HasEntry(config, th[t].vcenter_name)
           THEN /\ th[t].result.username =
                     FirstEntry(config, th[t].vcenter_name).username
                /\ th[t].result.password =
                     FirstEntry(config, th[t].vcenter_name).password
           ELSE /\ th[t].result.username = None
                /\ th[t].result.password = None

\* C3: every entry of the cache holds all four fields hostname, port, username
\* and password, in every reachable state.
C3_WholeRecords ==
  \A i \in 1..Len(cache) :
    DOMAIN cache[i].item = {"hostname", "port", "username", "password"}

\* C4: when a step of the resolution chain fails (login, VM lookup, get_vc,
\* vCenter lookup, URL), the call raises and the cache is exactly as it was
\* before the call, with no entry for the VM id.
C4_FailureLeavesCache ==
  \A t \in AllThreads :
    (th[t].pc = "raised" /\ th[t].at \in ChainSteps) =>
      /\ cache = th[t].cache0
      /\ ~InCache(cache, th[t].vm_id)

C4_Witness ==
  \E t \in AllThreads :
    /\ th[t].pc = "raised"
    /\ th[t].at = "get_vcenter"
    /\ Len(cache) = maxsize

\* C5: the cache never holds more than maxsize entries, and a miss that inserts
\* a new key into a full cache evicts exactly one key, the least recently
\* accessed one, a cache hit counting as an access.
C5_BoundedLru ==
  /\ Len(cache) <= maxsize
  /\ Cardinality(Keys(cache)) = Len(cache)
  /\ evict.full => /\ evict.keys = {evict.lru}
                   /\ Cardinality(evict.added) = 1
                   /\ Len(cache) = maxsize

\* an eviction by the call that follows a cache hit: the key of the hit stays
C5_Witness ==
  \E t \in AllThreads :
    /\ evict.full
    /\ th[t].pc = "log"
    /\ th[t].inserted
    /\ evict.added = {th[t].vm_id}
    /\ th[t].prev.vm_id # 0
    /\ ~th[t].prev.miss
    /\ th[t].prev.vm_id \in Keys(cache)

(***************************************************************************)
(* Claims about upload_ova_to_catalog, checked under SpecUpload.            *)
(***************************************************************************)
Ops(trace, S) == SelectSeq(trace, LAMBDA e : e.op \in S)

OpNames(trace) == [i \in 1..Len(trace) |-> trace[i].op]

IsPrefix(a, b) == Len(a) <= Len(b) /\ a = SubSeq(b, 1, Len(a))

Ev(op, out) == [op |-> op, out |-> out]

Has(trace, e) == \E i \in 1..Len(trace) : trace[i] = e

UpDone == up.pc \in {"returned", "raised"}

\* C6: without update, a call that finds the item in the catalog returns
\* without upload, delete or wait and leaves the catalog as it was; a second
\* call after a successful one, for the same file name, uploads nothing and
\* succeeds, so the two calls make at most one upload.
C6_IdempotentSkip ==
  /\ (~up.update /\ Has(up.trace, Ev("get_catalog_item", OK))) =>
       /\ up.pc = "returned"
       /\ Ops(up.trace, {"upload_ovf", "delete_catalog_item", "drain_wait",
                         "confirm_wait", "reload"}) = <<>>
       /\ items = up.items0
  /\ (/\ UpDone
      /\ ~up.update
      /\ up.at # "get_org"
      /\ prevUp.pc = "returned"
      /\ ~prevUp.update
      /\ prevUp.name = PathName(up.filepath)) =>
       /\ up.pc = "returned"
       /\ Count(up.trace, "upload_ovf") = 0
       /\ prevUp.uploads <= 1

\* the second of two calls without update for one file, the first of which
\* uploaded it
C6_Witness ==
  /\ up.pc = "returned"
  /\ ~up.update
  /\ Has(up.trace, Ev("get_catalog_item", OK))
  /\ prevUp.pc = "returned"
  /\ ~prevUp.update
  /\ prevUp.name = up.name
  /\ prevUp.uploads = 1

UpdateSteps == <<"delete_catalog_item", "drain_wait", "upload_ovf", "confirm_wait">>

UpdateOps == Ops(up.trace, {UpdateSteps[i] : i \in 1..Len(UpdateSteps)})

\* update is set and the delete found and deleted the item
PreExisting == up.update /\ Has(up.trace, Ev("delete_catalog_item", OK))

\* C7 as stated: with update and a pre-existing item, a call that returns has
\* made one delete, one drain-wait run to completion, one upload and one
\* confirm-wait, in that order.
C7_DeleteDrainUploadConfirm ==
  (PreExisting /\ up.pc = "returned") =>
    UpdateOps = << Ev("delete_catalog_item", OK), Ev("drain_wait", OK),
                   Ev("upload_ovf", OK), Ev("confirm_wait", OK) >>

\* C7 amended: the four calls are made once each in that order, and the
\* drain-wait either runs to completion or ends at once with the not-found of
\* an item that is already gone, which the workflow swallows.
C7_DeleteDrainUploadConfirmOrGone ==
  PreExisting =>
    /\ IsPrefix(OpNames(UpdateOps), UpdateSteps)
    /\ up.pc = "returned" =>
         /\ OpNames(UpdateOps) = UpdateSteps
         /\ UpdateOps[2].out \in {OK, NotFound}
         /\ UpdateOps[3].out = OK
         /\ UpdateOps[4].out = OK

C7_Witness ==
  /\ PreExisting
  /\ up.pc = "returned"
  /\ UpdateOps[2] = Ev("drain_wait", OK)

\* the calls made after the org was resolved
Work == Ops(up.trace, {"get_catalog_item", "delete_catalog_item", "reload",
                       "drain_wait", "upload_ovf", "confirm_wait"})

\* the existence check or the delete reported the item absent
NotPreExisting ==
  /\ Work # <<>>
  /\ Work[1].op \in {"get_catalog_item", "delete_catalog_item"}
  /\ Work[1].out = NotFound

\* C8: when the item does not pre-exist, the call makes one upload_ovf, then
\* one reload, then one wait on the new item, and returns only after the wait
\* succeeded; a rejected upload or a failed task reaches the caller and nothing
\* is tried again.
C8_UploadReloadWait ==
  NotPreExisting =>
    LET rest == Tail(Work) IN
      /\ IsPrefix(OpNames(rest), <<"upload_ovf", "reload", "confirm_wait">>)
      /\ up.pc = "returned" =>
           rest = << Ev("upload_ovf", OK), Ev("reload", OK),
                     Ev("confirm_wait", OK) >>
      /\ \A i \in 1..Len(rest) :
           rest[i].out # OK =>
             /\ i = Len(rest)
             /\ up.pc = "raised"
             /\ up.exc = rest[i].out
             /\ up.at = rest[i].op
      /\ up.pc = "raised" => (rest # <<>> /\ rest[Len(rest)].out # OK)

C8_Witness ==
  /\ NotPreExisting
  /\ up.pc = "returned"
  /\ Count(up.trace, "upload_ovf") = 1

\* a not-found of a call named in S is swallowed and the workflow goes on;
\* a not-found of any other call ends the workflow and reaches the caller; a
\* missing catalog always reaches the caller
SwallowsOnly(S) ==
  /\ \A i \in 1..Len(up.trace) :
       up.trace[i].out = NotFound =>
         IF up.trace[i].op \in S
           THEN ~(up.pc = "raised" /\ up.at = up.trace[i].op /\ i = Len(up.trace))
           ELSE /\ i = Len(up.trace)
                /\ up.pc = "raised"
                /\ up.exc = NotFound
                /\ up.at = up.trace[i].op
  /\ (UpDone /\ ~catalogExists /\ up.at # "get_org") =>
       (up.pc = "raised" /\ up.exc = NotFound)

\* C9 as stated: a not-found is swallowed only at the existence check without
\* update and at the delete before an update; from every other step (org
\* resolution, drain-wait, upload, confirm-wait, a missing catalog) it reaches
\* the caller.
C9_SwallowsCheckAndDelete ==
  SwallowsOnly({"get_catalog_item", "delete_catalog_item"})

\* C9 amended: the not-found of the drain-wait after a delete is swallowed as
\* well (the try block of lines 358-374 covers it).
C9_SwallowsCheckDeleteAndDrain ==
  SwallowsOnly({"get_catalog_item", "delete_catalog_item", "drain_wait"})

C9_Witness ==
  /\ Has(up.trace, Ev("drain_wait", NotFound))
  /\ up.pc = "returned"

(***************************************************************************)
(* Claim about process_response, checked under SpecResponse.                *)
(***************************************************************************)
Is2xx(code) == 200 <= code /\ code <= 299

\* C10: for a response whose content decodes, process_response returns the
\* decoded content when the status code is 2xx (200 through 299), and raises
\* VcdResponseError carrying the status code when it is not.
C10_ReturnsOn2xx ==
  (outcome.kind # None /\ response.content \in JsonContents \cup {"empty"}) =>
    IF Is2xx(response.status_code)
      THEN /\ outcome.kind = "return"
           /\ outcome.value = deserialize_response_content(response).value
      ELSE /\ outcome.kind = "raise"
           /\ outcome.exc = "VcdResponseError"
           /\ outcome.code = response.status_code

(***************************************************************************)
(* Claims about concurrent get_vsphere calls, checked under SpecConcurrent. *)
(***************************************************************************)
EntriesOf(c, k) == {i \in 1..Len(c) : c[i].key = k}

\* two calls for one VM id that both found it absent and both inserted it
Racers(t, u) ==
  /\ t # u
  /\ th[t].vm_id # 0
  /\ th[t].vm_id = th[u].vm_id
  /\ th[t].miss /\ th[u].miss
  /\ th[t].inserted /\ th[u].inserted

\* the insert of line 597 by thread t
InsertStep(t) == th[t].pc = "insert" /\ th'[t].pc = "log"

\* C11: two threads in get_vsphere for the same uncached VM id can both see a
\* miss; each then performs the full chain with its own login and inserts, the
\* later insert replaces the earlier entry, and the cache holds one entry for
\* the key.
C11_RaceLastWriteWins ==
  /\ [](\A t, u \in AllThreads :
          Racers(t, u) =>
            /\ th[t].nlogin = 1 /\ th[u].nlogin = 1
            /\ th[t].nchain = 1 /\ th[u].nchain = 1
            /\ Cardinality(EntriesOf(cache, th[t].vm_id)) <= 1)
  /\ [][\A t \in AllThreads :
          InsertStep(t) =>
            /\ cache'[Len(cache')] = [key |-> th[t].vm_id,
                                      item |-> th[t].cache_item]
            /\ Cardinality(EntriesOf(cache', th[t].vm_id)) = 1]_vars

\* both threads missed, logged in, resolved and inserted; the later insert
\* found the key present and added none
C11_Witness ==
  \E t, u \in AllThreads :
    /\ Racers(t, u)
    /\ th[t].nlogin + th[u].nlogin = 2
    /\ evict.added = {}
    /\ Cardinality(EntriesOf(cache, th[t].vm_id)) = 1

\* the record the platform and config['vcs'] give for a VM
RecordOf(vm) ==
  MatchVcs(config, VcOf(vm),
           [hostname |-> VcUrl(VcOf(vm)).host, port |-> PortOf(VcUrl(VcOf(vm)))])

\* C12: in a call that got past the cache check, no read of cache[vm_id] at
\* lines 600-603 fails for want of the key, and the endpoint returned is the one
\* record of the VM, also when calls of other threads interleave.
C12_ReadsOfOneRecord ==
  \A t \in AllThreads :
    /\ th[t].pc = "raised" => th[t].exc # "KeyError(vm_id)"
    /\ th[t].pc \in {"return", "returned"} => th[t].result = RecordOf(th[t].vm_id)

====
